---- MODULE Spec2Model ----
(***************************************************************************)
(* AMSE configuration loader (amse/config.py) and the Firebase client      *)
(* singleton (amse/utils/firebase_client.py) as a state machine.           *)
(*                                                                         *)
(* Python values are tagged records: [t |-> "None"], [t |-> "str", v |->   *)
(* <<chars>>], [t |-> "int", v |-> n], [t |-> "float", ...], [t |->        *)
(* "list"], [t |-> "dict", items |-> f], and dataclass instances           *)
(* [t |-> <class>, attrs |-> f] whose attrs grow while __init__ runs.      *)
(***************************************************************************)
EXTENDS Integers, Sequences, FiniteSets, TLC

VARIABLES
    env,            \* os.environ['FIREBASE_SERVICE_ACCOUNT_JSON'] (None = unset)
    pc,             \* position of the module-level statement config = Config()
    cfg,            \* attributes of the Config instance under construction / loaded
    config,         \* module global `config`: bound to the instance or not yet
    firebase_json,  \* local of _load_firebase_config
    config_dict,    \* local of _load_firebase_config
    building,       \* FirebaseConfig instance inside its generated __init__
    exc,            \* exception in flight inside / escaping Config()
    log,            \* diagnostics emitted through logging
    observed,       \* last value a consumer read from config.firebase
    view,           \* result of the last config.to_dict() call
    prevView,       \* result of the to_dict() call before it
    cls_instance,   \* FirebaseClient._instance (0 = None, else object id)
    objs,           \* FirebaseClient objects created so far, with their attributes
    apps,           \* firebase_admin._apps is non-empty
    tpc,            \* per thread: position inside FirebaseClient()
    tself,          \* per thread: object id bound to cls/self in the call
    tresult,        \* per thread: outcome of its last FirebaseClient() call
    store,          \* remote 'models' collection
    initRuns        \* how many times _initialize ran to successful completion

loadVars   == <<env, pc, cfg, config, firebase_json, config_dict, building, exc, log>>
readVars   == <<observed, view, prevView>>
clientVars == <<cls_instance, objs, apps, tpc, tself, tresult, store, initRuns>>
vars       == <<loadVars, readVars, clientVars>>

----------------------------------------------------------------------------
(* Bounds of the model *)

\* a credential blob departs from the minimal valid one (the five required keys,
\* each a plain string) in at most this many places: a required key left out, an
\* endpoint URL key supplied, an unrecognized key added, a value of another kind
MaxDeviations == 2
\* size of the remote 'models' collection
MaxModels == 1

Threads == {1, 2}

----------------------------------------------------------------------------
(* Python values *)

PyNone      == [t |-> "None"]
Unset       == [t |-> "unset"]     \* attribute / local not assigned yet
PyStr(s)    == [t |-> "str", v |-> s]
PyInt(n)    == [t |-> "int", v |-> n]
PyFloat(w, f) == [t |-> "float", whole |-> w, frac |-> f]
PyList      == [t |-> "list"]
PyDict(f)   == [t |-> "dict", items |-> f]
Instance(c, f) == [t |-> c, attrs |-> f]

EmptyAttrs == [k \in {} |-> Unset]

RequiredFields == <<"project_id", "private_key_id", "private_key",
                    "client_email", "client_id">>
DefaultedFields == <<"auth_uri", "token_uri", "auth_provider_x509_cert_url",
                     "client_x509_cert_url">>
Fields == RequiredFields \o DefaultedFields

Range(s) == {s[i] : i \in 1..Len(s)}

\* Characters stand for themselves; "U" abbreviates the text of a URL.
Url(tag) == PyStr(<<"U", tag>>)

FieldDefault(k) ==
    CASE k = "auth_uri" -> Url("accounts.google.com/o/oauth2/auth")
      [] k = "token_uri" -> Url("oauth2.googleapis.com/token")
      [] k = "auth_provider_x509_cert_url" -> Url("www.googleapis.com/oauth2/v1/certs")
      [] k = "client_x509_cert_url" -> Url("www.googleapis.com/robot/v1/metadata/x509/...")

DataConfig ==
    Instance("DataConfig",
             [ccxt_exchanges |-> PyNone,
              data_freshness_minutes |-> PyInt(5),
              historical_days |-> PyInt(365),
              max_symbols_per_exchange |-> PyInt(50)])

\* fault: the drawdown limit kept as a fraction instead of a percentage
ModelConfigFraction ==
    Instance("ModelConfig",
             [max_model_complexity |-> PyInt(10),
              min_backtest_period_days |-> PyInt(30),
              required_sharpe_ratio |-> PyFloat(1, 0),
              max_drawdown_percent |-> PyFloat(0, 2),
              genetic_population_size |-> PyInt(50)])

ModelConfig ==
    Instance("ModelConfig",
             [max_model_complexity |-> PyInt(10),
              min_backtest_period_days |-> PyInt(30),
              required_sharpe_ratio |-> PyFloat(1, 0),
              max_drawdown_percent |-> PyFloat(20, 0),
              genetic_population_size |-> PyInt(50)])

----------------------------------------------------------------------------
(* The environment: texts the credential variable can hold *)

\* A text is [t |-> "str", chars |-> "empty" | "corrupt" | "json", doc |-> d]:
\* the empty string, a text json.loads rejects (doc is what it was cut from),
\* or the JSON encoding of doc.
Text(chars, doc) == [t |-> "str", chars |-> chars, doc |-> doc]

PlainStr   == PyStr(<<"k">>)
EscapedStr == PyStr(<<"k", "\\", "n", "k">>)
OddValues  == {PyStr(<<>>), PyInt(0), PyNone, EscapedStr}

Shapes ==
    { [miss |-> m, ends |-> e, extra |-> x] :
        m \in SUBSET Range(RequiredFields),
        e \in SUBSET Range(DefaultedFields),
        x \in {{}, {"type"}} }

Deviations(sh) == Cardinality(sh.miss) + Cardinality(sh.ends) + Cardinality(sh.extra)

Keys(sh) == (Range(RequiredFields) \ sh.miss) \cup sh.ends \cup sh.extra

ObjectsOf(sh) ==
    { [k \in Keys(sh) |-> IF k \in DOMAIN g THEN g[k] ELSE PlainStr] :
        g \in UNION { [O -> OddValues] :
                        O \in {o \in SUBSET Keys(sh) :
                                 Cardinality(o) + Deviations(sh) <= MaxDeviations} } }

Objects ==
    UNION { ObjectsOf(sh) : sh \in {x \in Shapes : Deviations(x) <= MaxDeviations} }

Documents ==
    {PyNone, PyInt(0), PyList, PlainStr}
      \cup { PyDict(f) : f \in Objects }

EnvValues ==
    {PyNone, Text("empty", PyNone)}
      \cup { Text("json", d) : d \in Documents }
      \cup { Text("corrupt", d) : d \in {PyNone, PyDict([k \in Range(RequiredFields) |-> PlainStr])} }

----------------------------------------------------------------------------
(* Library behaviour the loader relies on *)

Ok(v)     == [raised |-> "none", value |-> v]
Raise(e)  == [raised |-> e, value |-> Unset]

\* bool(x) as used by `if firebase_json:` and `if self.firebase`
Truthy(x) ==
    CASE x.t = "None" -> FALSE
      [] x.t = "str" /\ "chars" \in DOMAIN x -> x.chars # "empty"
      [] x.t = "str" /\ "v" \in DOMAIN x -> x.v # <<>>
      [] x.t = "int" -> x.v # 0
      [] OTHER -> TRUE      \* a dataclass instance defines neither __bool__ nor __len__

\* json.loads(text)
json_loads(text) ==
    IF text.chars = "json" THEN Ok(text.doc) ELSE Raise("JSONDecodeError")

\* fault: unrecognized keys are filtered out instead of rejected
BindArgsLenient(d) ==
    IF d.t # "dict" THEN Raise("TypeError")
    ELSE IF ~(Range(RequiredFields) \subseteq DOMAIN d.items) THEN Raise("TypeError")
    ELSE Ok([k \in Range(Fields) |->
                IF k \in DOMAIN d.items THEN d.items[k] ELSE FieldDefault(k)])

\* fault: the endpoint URLs are always the defaults, overrides are dropped
BindArgsDefaultsOnly(d) ==
    IF d.t # "dict" THEN Raise("TypeError")
    ELSE IF ~(DOMAIN d.items \subseteq Range(Fields)) THEN Raise("TypeError")
    ELSE IF ~(Range(RequiredFields) \subseteq DOMAIN d.items) THEN Raise("TypeError")
    ELSE Ok([k \in Range(Fields) |->
                IF k \in Range(RequiredFields) THEN d.items[k] ELSE FieldDefault(k)])

\* binding of FirebaseConfig(**d) to the generated __init__'s parameters
BindArgs(d) ==
    IF d.t # "dict" THEN Raise("TypeError")
    ELSE IF ~(DOMAIN d.items \subseteq Range(Fields)) THEN Raise("TypeError")
    ELSE IF ~(Range(RequiredFields) \subseteq DOMAIN d.items) THEN Raise("TypeError")
    ELSE Ok([k \in Range(Fields) |->
                IF k \in DOMAIN d.items THEN d.items[k] ELSE FieldDefault(k)])

\* fault: only the JSON decode error is intercepted
HandlerJsonOnly(e) ==
    CASE e = "JSONDecodeError" -> "L64"
      [] OTHER -> "crashed"

\* except json.JSONDecodeError / except Exception
Handler(e) ==
    CASE e = "JSONDecodeError" -> "L64"
      [] e \in {"TypeError", "ValueError", "AttributeError"} -> "L66"
      [] OTHER -> "crashed"

\* dataclasses.asdict(obj)
asdict(obj) == PyDict(obj.attrs)

\* fault: the credential record is exported as the instance itself
to_dict_shallow(self) ==
    PyDict([firebase |-> self.firebase,
            data     |-> asdict(self.data),
            model    |-> asdict(self.model)])

\* Config.to_dict
to_dict(self) ==
    PyDict([firebase |-> IF Truthy(self.firebase) THEN asdict(self.firebase) ELSE PyNone,
            data     |-> asdict(self.data),
            model    |-> asdict(self.model)])

----------------------------------------------------------------------------
(* Initial state: the interpreter is about to execute config = Config() *)

NoView == [t |-> "noview"]

InitWith(E) ==
    /\ env \in E
    /\ pc = "L77"
    /\ cfg = [firebase |-> Unset, data |-> Unset, model |-> Unset]
    /\ config = "unbound"
    /\ firebase_json = Unset
    /\ config_dict = Unset
    /\ building = Unset
    /\ exc = "none"
    /\ log = {}
    /\ observed = Unset
    /\ view = NoView
    /\ prevView = NoView
    /\ cls_instance = 0
    /\ objs = <<>>
    /\ apps = FALSE
    /\ tpc = [t \in Threads |-> "idle"]
    /\ tself = [t \in Threads |-> 0]
    /\ tresult = [t \in Threads |-> [status |-> "none", client |-> 0]]
    /\ store = [i \in 1..MaxModels |-> "absent"]
    /\ initRuns = 0

----------------------------------------------------------------------------
(* config = Config(): one action per statement *)

LoadStep(from, to) ==
    /\ pc = from
    /\ pc' = to

\* fault: the instance is bound to the global name before __init__ has run
CallConfigPublishing ==
    /\ LoadStep("L77", "L49")
    /\ config' = "bound"
    /\ UNCHANGED <<env, cfg, firebase_json, config_dict, building, exc, log>>
    /\ UNCHANGED <<readVars, clientVars>>

CallConfig ==
    /\ LoadStep("L77", "L49")
    /\ UNCHANGED <<env, cfg, config, firebase_json, config_dict, building, exc, log>>
    /\ UNCHANGED <<readVars, clientVars>>

InitFirebase ==
    /\ LoadStep("L49", "L50")
    /\ cfg' = [cfg EXCEPT !.firebase = PyNone]
    /\ UNCHANGED <<env, config, firebase_json, config_dict, building, exc, log>>
    /\ UNCHANGED <<readVars, clientVars>>

InitData ==
    /\ LoadStep("L50", "L51")
    /\ cfg' = [cfg EXCEPT !.data = DataConfig]
    /\ UNCHANGED <<env, config, firebase_json, config_dict, building, exc, log>>
    /\ UNCHANGED <<readVars, clientVars>>

InitModel ==
    /\ LoadStep("L51", "L57")
    /\ cfg' = [cfg EXCEPT !.model = ModelConfig]
    /\ UNCHANGED <<env, config, firebase_json, config_dict, building, exc, log>>
    /\ UNCHANGED <<readVars, clientVars>>

Getenv ==
    /\ LoadStep("L57", "L58")
    /\ firebase_json' = env
    /\ UNCHANGED <<env, cfg, config, config_dict, building, exc, log>>
    /\ UNCHANGED <<readVars, clientVars>>

Branch ==
    /\ pc = "L58"
    /\ pc' = IF Truthy(firebase_json) THEN "L59" ELSE "L62"
    /\ UNCHANGED <<env, cfg, config, firebase_json, config_dict, building, exc, log>>
    /\ UNCHANGED <<readVars, clientVars>>

Decode ==
    /\ pc = "L59"
    /\ LET r == json_loads(firebase_json) IN
         IF r.raised = "none"
         THEN /\ config_dict' = r.value
              /\ pc' = "L60"
              /\ exc' = exc
         ELSE /\ exc' = r.raised
              /\ pc' = Handler(r.raised)
              /\ config_dict' = config_dict
    /\ UNCHANGED <<env, cfg, config, firebase_json, building, log>>
    /\ UNCHANGED <<readVars, clientVars>>

\* FirebaseConfig(**config_dict): argument binding, then one assignment per field
Construct ==
    /\ pc = "L60"
    /\ LET r == BindArgs(config_dict) IN
         IF r.raised = "none"
         THEN /\ building' = Instance("FirebaseConfig", EmptyAttrs)
              /\ pc' = "L60_init"
              /\ exc' = exc
         ELSE /\ exc' = r.raised
              /\ pc' = Handler(r.raised)
              /\ building' = building
    /\ UNCHANGED <<env, cfg, config, firebase_json, config_dict, log>>
    /\ UNCHANGED <<readVars, clientVars>>

SetField ==
    /\ pc = "L60_init"
    /\ LET n == Cardinality(DOMAIN building.attrs) + 1
           k == Fields[n]
           args == BindArgs(config_dict).value
       IN /\ building' = [building EXCEPT !.attrs =
                            [j \in DOMAIN building.attrs \cup {k} |->
                                IF j = k THEN args[k] ELSE building.attrs[j]]]
          /\ pc' = IF n = Len(Fields) THEN "L60_assign" ELSE "L60_init"
    /\ UNCHANGED <<env, cfg, config, firebase_json, config_dict, exc, log>>
    /\ UNCHANGED <<readVars, clientVars>>

AssignFirebase ==
    /\ LoadStep("L60_assign", "return")
    /\ cfg' = [cfg EXCEPT !.firebase = building]
    /\ building' = Unset
    /\ UNCHANGED <<env, config, firebase_json, config_dict, exc, log>>
    /\ UNCHANGED <<readVars, clientVars>>

WarnNotFound ==
    /\ LoadStep("L62", "return")
    /\ log' = log \cup {"warning: not found in environment"}
    /\ UNCHANGED <<env, cfg, config, firebase_json, config_dict, building, exc>>
    /\ UNCHANGED <<readVars, clientVars>>

LogParseError ==
    /\ LoadStep("L64", "return")
    /\ log' = log \cup {"error: failed to parse"}
    /\ exc' = "none"
    /\ UNCHANGED <<env, cfg, config, firebase_json, config_dict, building>>
    /\ UNCHANGED <<readVars, clientVars>>

LogLoadError ==
    /\ LoadStep("L66", "return")
    /\ log' = log \cup {"error: failed to load"}
    /\ exc' = "none"
    /\ UNCHANGED <<env, cfg, config, firebase_json, config_dict, building>>
    /\ UNCHANGED <<readVars, clientVars>>

\* Config() returns and the module binds the global name
Publish ==
    /\ LoadStep("return", "done")
    /\ config' = "bound"
    /\ firebase_json' = Unset
    /\ config_dict' = Unset
    /\ UNCHANGED <<env, cfg, building, exc, log>>
    /\ UNCHANGED <<readVars, clientVars>>

_load_firebase_config ==
    \/ Getenv \/ Branch \/ Decode \/ Construct \/ SetField \/ AssignFirebase
    \/ WarnNotFound \/ LogParseError \/ LogLoadError

Load == CallConfig \/ InitFirebase \/ InitData \/ InitModel \/ _load_firebase_config \/ Publish

----------------------------------------------------------------------------
(* Consumers of the published aggregate *)

\* a consumer evaluates config.firebase
ReadFirebase ==
    /\ config = "bound"
    /\ observed' = cfg.firebase
    /\ UNCHANGED <<loadVars, view, prevView, clientVars>>

\* a consumer evaluates config.to_dict()
ToDict ==
    /\ config = "bound"
    /\ view' = to_dict(cfg)
    /\ prevView' = view
    /\ UNCHANGED <<loadVars, observed, clientVars>>

NextLoad == Load \/ ReadFirebase \/ ToDict

InitLoad == InitWith(EnvValues)

SpecLoad == InitLoad /\ [][NextLoad]_vars

----------------------------------------------------------------------------
(* FirebaseClient(): __new__, __init__ and _initialize, one thread per call *)

NewObject == [has_initialized |-> FALSE, has_firestore |-> FALSE]

Outcome(status, client) == [status |-> status, client |-> client]

\* str.replace('\\n', '\n') on a sequence of characters
RECURSIVE replace(_)
replace(s) ==
    IF s = <<>> THEN <<>>
    ELSE IF Len(s) >= 2 /\ s[1] = "\\" /\ s[2] = "n"
         THEN <<"\n">> \o replace(SubSeq(s, 3, Len(s)))
         ELSE <<s[1]>> \o replace(Tail(s))

\* cred_dict of _initialize, or the exception building it raises
cred_dict(firebase) ==
    IF ~Truthy(firebase) THEN Raise("ValueError")
    ELSE IF firebase.attrs["private_key"].t # "str" THEN Raise("AttributeError")
    ELSE Ok(PyDict([k \in Range(Fields) \cup {"type"} |->
                      CASE k = "type" -> PyStr(<<"service_account">>)
                        [] k = "private_key" -> PyStr(replace(firebase.attrs[k].v))
                        [] OTHER -> firebase.attrs[k]]))

ThreadStep(t, from, to) ==
    /\ tpc[t] = from
    /\ tpc' = [tpc EXCEPT ![t] = to]

\* fault: the except block logs and does not re-raise
SwallowError(t) ==
    /\ tpc' = [tpc EXCEPT ![t] = "L29"]
    /\ tresult' = tresult
    /\ log' = log \cup {"error: failed to initialize client"}

\* the call raises out of FirebaseClient(): except Exception logs and re-raises
RaiseOut(t) ==
    /\ tpc' = [tpc EXCEPT ![t] = "idle"]
    /\ tresult' = [tresult EXCEPT ![t] = Outcome("raised", 0)]
    /\ log' = log \cup {"error: failed to initialize client"}

CallClient(t) ==
    /\ config = "bound"
    /\ ThreadStep(t, "idle", "L22")
    /\ UNCHANGED <<loadVars, readVars>>
    /\ UNCHANGED <<cls_instance, objs, apps, tself, tresult, store, initRuns>>

NewCheck(t) ==
    /\ tpc[t] = "L22"
    /\ tpc' = [tpc EXCEPT ![t] = IF cls_instance = 0 THEN "L23" ELSE "L24"]
    /\ UNCHANGED <<loadVars, readVars>>
    /\ UNCHANGED <<cls_instance, objs, apps, tself, tresult, store, initRuns>>

NewCreate(t) ==
    /\ ThreadStep(t, "L23", "L24")
    /\ objs' = Append(objs, NewObject)
    /\ cls_instance' = Len(objs) + 1
    /\ UNCHANGED <<loadVars, readVars>>
    /\ UNCHANGED <<apps, tself, tresult, store, initRuns>>

NewReturn(t) ==
    /\ ThreadStep(t, "L24", "L27")
    /\ tself' = [tself EXCEPT ![t] = cls_instance]
    /\ UNCHANGED <<loadVars, readVars>>
    /\ UNCHANGED <<cls_instance, objs, apps, tresult, store, initRuns>>

\* if not self._initialized: the instance attribute, else the class attribute False
InitCheck(t) ==
    /\ tpc[t] = "L27"
    /\ IF ~objs[tself[t]].has_initialized
       THEN /\ tpc' = [tpc EXCEPT ![t] = "L34"]
            /\ tresult' = tresult
       ELSE /\ tpc' = [tpc EXCEPT ![t] = "idle"]
            /\ tresult' = [tresult EXCEPT ![t] = Outcome("returned", tself[t])]
    /\ UNCHANGED <<loadVars, readVars>>
    /\ UNCHANGED <<cls_instance, objs, apps, tself, store, initRuns>>

\* fault: the unescaped private key is written back into the shared configuration
CredentialsInPlace(t) ==
    /\ tpc[t] = "L34"
    /\ LET r == cred_dict(cfg.firebase) IN
         \/ /\ r.raised = "none"
            /\ tpc' = [tpc EXCEPT ![t] = "L54"]
            /\ cfg' = [cfg EXCEPT !.firebase.attrs["private_key"] =
                                     r.value.items["private_key"]]
            /\ UNCHANGED <<tresult, log>>
         \/ /\ RaiseOut(t)
            /\ cfg' = cfg
    /\ UNCHANGED <<env, pc, config, firebase_json, config_dict, building, exc>>
    /\ UNCHANGED <<readVars, cls_instance, objs, apps, tself, store, initRuns>>

\* lines 34-51: presence check, cred_dict, credentials.Certificate(cred_dict);
\* the certificate library accepts or rejects the key material
Credentials(t) ==
    /\ tpc[t] = "L34"
    /\ LET r == cred_dict(cfg.firebase) IN
         \/ /\ r.raised = "none"
            /\ tpc' = [tpc EXCEPT ![t] = "L54"]
            /\ UNCHANGED <<tresult, log>>
         \/ RaiseOut(t)
    /\ UNCHANGED <<env, pc, cfg, config, firebase_json, config_dict, building, exc>>
    /\ UNCHANGED <<readVars, cls_instance, objs, apps, tself, store, initRuns>>

AppsCheck(t) ==
    /\ tpc[t] = "L54"
    /\ tpc' = [tpc EXCEPT ![t] = IF ~apps THEN "L55" ELSE "L60"]
    /\ UNCHANGED <<loadVars, readVars>>
    /\ UNCHANGED <<cls_instance, objs, apps, tself, tresult, store, initRuns>>

\* firebase_admin.initialize_app raises ValueError when the default app exists
InitializeApp(t) ==
    /\ tpc[t] = "L55"
    /\ IF apps
       THEN /\ RaiseOut(t)
            /\ apps' = apps
       ELSE /\ apps' = TRUE
            /\ tpc' = [tpc EXCEPT ![t] = "L60"]
            /\ UNCHANGED <<tresult, log>>
    /\ UNCHANGED <<env, pc, cfg, config, firebase_json, config_dict, building, exc>>
    /\ UNCHANGED <<readVars, cls_instance, objs, tself, store, initRuns>>

\* lines 60-62: self.firestore, self.realtime_db; the SDK may refuse
Connect(t) ==
    /\ tpc[t] = "L60"
    /\ \/ /\ objs' = [objs EXCEPT ![tself[t]].has_firestore = TRUE]
          /\ initRuns' = initRuns + 1
          /\ tpc' = [tpc EXCEPT ![t] = "L29"]
          /\ UNCHANGED <<tresult, log>>
       \/ /\ RaiseOut(t)
          /\ UNCHANGED <<objs, initRuns>>
    /\ UNCHANGED <<env, pc, cfg, config, firebase_json, config_dict, building, exc>>
    /\ UNCHANGED <<readVars, cls_instance, apps, tself, store>>

SetInitialized(t) ==
    /\ ThreadStep(t, "L29", "idle")
    /\ objs' = [objs EXCEPT ![tself[t]].has_initialized = TRUE]
    /\ tresult' = [tresult EXCEPT ![t] = Outcome("returned", tself[t])]
    /\ UNCHANGED <<loadVars, readVars>>
    /\ UNCHANGED <<cls_instance, apps, tself, store, initRuns>>

_initialize(t) == Credentials(t) \/ AppsCheck(t) \/ InitializeApp(t) \/ Connect(t)

FirebaseClient(t) ==
    \/ CallClient(t) \/ NewCheck(t) \/ NewCreate(t) \/ NewReturn(t)
    \/ InitCheck(t) \/ _initialize(t) \/ SetInitialized(t)

----------------------------------------------------------------------------
(* Firestore operations on a client a construction returned *)

Holds(t) == tpc[t] = "idle" /\ tresult[t].status = "returned"

save_model(t) ==
    /\ Holds(t)
    /\ IF ~objs[tresult[t].client].has_firestore
       THEN /\ log' = log \cup {"error: failed to save model"}
            /\ store' = store
       ELSE \/ \E id \in DOMAIN store :
                 /\ store[id] = "absent"
                 /\ store' = [store EXCEPT ![id] = "saved"]
                 /\ log' = log
            \/ /\ log' = log \cup {"error: failed to save model"}
               /\ store' = store
    /\ UNCHANGED <<env, pc, cfg, config, firebase_json, config_dict, building, exc>>
    /\ UNCHANGED <<readVars, cls_instance, objs, apps, tpc, tself, tresult, initRuns>>

update_model_performance(t, model_id) ==
    /\ Holds(t)
    /\ IF objs[tresult[t].client].has_firestore /\ store[model_id] # "absent"
       THEN \/ /\ store' = [store EXCEPT ![model_id] = "evaluated"]
               /\ log' = log
            \/ /\ log' = log \cup {"error: failed to update model performance"}
               /\ store' = store
       ELSE /\ log' = log \cup {"error: failed to update model performance"}
            /\ store' = store
    /\ UNCHANGED <<env, pc, cfg, config, firebase_json, config_dict, building, exc>>
    /\ UNCHANGED <<readVars, cls_instance, objs, apps, tpc, tself, tresult, initRuns>>

----------------------------------------------------------------------------
(* The whole process *)

Blob(f) == Text("json", PyDict(f))

FullBlob(key) ==
    [k \in Range(RequiredFields) |-> IF k = "private_key" THEN key ELSE PlainStr]

ClientEnvValues ==
    { PyNone,
      Text("corrupt", PyDict(FullBlob(PlainStr))),
      Blob([k \in Range(RequiredFields) \ {"client_email"} |-> PlainStr]),
      Blob(FullBlob(EscapedStr)),
      Blob(FullBlob(PyInt(0))) }

Init == InitWith(ClientEnvValues)

Next ==
    \/ Load
    \/ ToDict
    \/ \E t \in Threads : FirebaseClient(t)
    \/ \E t \in Threads : save_model(t)
    \/ \E t \in Threads, model_id \in DOMAIN store : update_model_performance(t, model_id)

Spec == Init /\ [][Next]_vars

----------------------------------------------------------------------------
(* Properties *)

Loaded == pc = "done"

Absent(x) == x = PyNone

\* a FirebaseConfig instance with every one of its nine fields assigned
Complete(x) == x.t = "FirebaseConfig" /\ DOMAIN x.attrs = Range(Fields)

NonEmptyStr(v) == v.t = "str" /\ v.v # <<>>

IsObject(e) == e.t = "str" /\ e.chars = "json" /\ e.doc.t = "dict"

\* C1: whatever the credential variable holds, Config() runs to completion: no
\* exception escapes it, every state before the return has a next load step, and
\* the returned aggregate has a DataConfig and a ModelConfig.
C1_LoadNeverFails ==
    /\ pc # "crashed"
    /\ Loaded \/ ENABLED Load
    /\ Loaded => /\ exc = "none"
                 /\ config = "bound"
                 /\ cfg.data.t = "DataConfig"
                 /\ cfg.model.t = "ModelConfig"

\* C1 witness: load has returned for a value that is valid JSON but not an object
C1_Witness ==
    /\ Loaded
    /\ env.t = "str" /\ env.chars = "json" /\ env.doc.t = "list"
    /\ "error: failed to load" \in log

\* C2: in every returned aggregate the credential record is absent, or present
\* with each of the five required fields a non-empty string.
C2_PresentIsPopulated ==
    Loaded => \/ Absent(cfg.firebase)
              \/ /\ Complete(cfg.firebase)
                 /\ \A k \in Range(RequiredFields) : NonEmptyStr(cfg.firebase.attrs[k])

\* the blobs C3 is about: an object with the five required keys, each a non-empty
\* string, and no key outside the nine fields
ValidBlob(e) ==
    /\ IsObject(e)
    /\ Range(RequiredFields) \subseteq DOMAIN e.doc.items
    /\ DOMAIN e.doc.items \subseteq Range(Fields)
    /\ \A k \in Range(RequiredFields) : NonEmptyStr(e.doc.items[k])

\* C3: for a valid blob the loaded credential record is present, equals the
\* decoded value on every key the blob supplies and the fixed default URL on
\* every endpoint key it omits.
C3_FieldForField ==
    (Loaded /\ ValidBlob(env)) =>
        /\ Complete(cfg.firebase)
        /\ \A k \in Range(Fields) :
              cfg.firebase.attrs[k] =
                 IF k \in DOMAIN env.doc.items THEN env.doc.items[k] ELSE FieldDefault(k)

\* C3 witness: a valid blob that overrides one endpoint URL and omits another
C3_Witness ==
    /\ Loaded
    /\ ValidBlob(env)
    /\ "token_uri" \in DOMAIN env.doc.items
    /\ "auth_uri" \notin DOMAIN env.doc.items
    /\ cfg.firebase.attrs["token_uri"] = PlainStr
    /\ cfg.firebase.attrs["auth_uri"] = Url("accounts.google.com/o/oauth2/auth")

Unreadable(e) == e.t = "str" /\ e.chars = "corrupt"

LacksRequired(e) ==
    IsObject(e) /\ ~(Range(RequiredFields) \subseteq DOMAIN e.doc.items)

HasUnknownKey(e) ==
    IsObject(e) /\ ~(DOMAIN e.doc.items \subseteq Range(Fields))

\* C4: the credential record is absent after load when the variable is unset,
\* cannot be decoded, lacks a required key, or carries an unrecognized key.
C4_AbsentOnBadInput ==
    (Loaded /\ (env = PyNone \/ Unreadable(env) \/ LacksRequired(env) \/ HasUnknownKey(env)))
        => Absent(cfg.firebase)

\* C4 witness: all five required keys plus one unrecognized key, loaded as absent
C4_Witness ==
    /\ Loaded
    /\ HasUnknownKey(env)
    /\ ~LacksRequired(env)
    /\ Absent(cfg.firebase)

\* C5: every returned aggregate carries the default data-source and
\* model-synthesis settings, whichever credential branch was taken.
C5_DefaultsAlways ==
    Loaded =>
        /\ cfg.data.attrs.data_freshness_minutes = PyInt(5)
        /\ cfg.data.attrs.historical_days = PyInt(365)
        /\ cfg.data.attrs.max_symbols_per_exchange = PyInt(50)
        /\ cfg.data.attrs.ccxt_exchanges = PyNone
        /\ DOMAIN cfg.data.attrs = {"ccxt_exchanges", "data_freshness_minutes",
                                    "historical_days", "max_symbols_per_exchange"}
        /\ cfg.model.attrs.max_model_complexity = PyInt(10)
        /\ cfg.model.attrs.min_backtest_period_days = PyInt(30)
        /\ cfg.model.attrs.required_sharpe_ratio = PyFloat(1, 0)
        /\ cfg.model.attrs.max_drawdown_percent = PyFloat(20, 0)
        /\ cfg.model.attrs.genetic_population_size = PyInt(50)

\* C5 witness: the defaults are in place after a contained decode failure
C5_Witness ==
    /\ Loaded
    /\ "error: failed to parse" \in log
    /\ cfg.model.attrs.max_drawdown_percent = PyFloat(20, 0)

\* C6: a to_dict view has exactly the keys firebase, data and model; its firebase
\* entry is null exactly when the credential record is absent and otherwise a
\* mapping of exactly the record's fields and values, as are data and model; and
\* a second call returns a view equal to the first.
C6_SnapshotFaithful ==
    view # NoView =>
        /\ view.t = "dict"
        /\ DOMAIN view.items = {"firebase", "data", "model"}
        /\ (view.items.firebase = PyNone) <=> Absent(cfg.firebase)
        /\ ~Absent(cfg.firebase) => /\ view.items.firebase.t = "dict"
                                    /\ view.items.firebase.items = cfg.firebase.attrs
        /\ view.items.data.t = "dict" /\ view.items.data.items = cfg.data.attrs
        /\ view.items.model.t = "dict" /\ view.items.model.items = cfg.model.attrs
        /\ prevView # NoView => prevView = view

\* C6 witness: two to_dict calls on an aggregate whose credential record is present
C6_Witness ==
    /\ view # NoView
    /\ prevView # NoView
    /\ Complete(cfg.firebase)
    /\ view.items.firebase.items["project_id"] = cfg.firebase.attrs["project_id"]

\* C7: once the aggregate is published, no step of any operation changes one of
\* its sub-configs or rebinds the global name.
C7_LoadedIsTerminal ==
    [][config = "bound" => (cfg' = cfg /\ config' = config)]_vars

\* C7 witness: to_dict, a successful client initialization, save_model and
\* update_model_performance have all run against a loaded aggregate whose
\* private key holds an escaped newline
C7_Witness ==
    /\ config = "bound"
    /\ view # NoView
    /\ initRuns > 0
    /\ \E id \in DOMAIN store : store[id] = "evaluated"
    /\ cfg.firebase.attrs["private_key"] = EscapedStr

\* C8: the global name is bound only once load has finished, and the credential
\* field is, in every state and in everything a reader saw, unassigned, absent
\* or a record with all nine fields: it never holds a partly built record.
C8_AtomicPublish ==
    /\ config = "bound" => Loaded
    /\ cfg.firebase = Unset \/ Absent(cfg.firebase) \/ Complete(cfg.firebase)
    /\ config = "bound" => (Absent(cfg.firebase) \/ Complete(cfg.firebase))
    /\ observed = Unset \/ Absent(observed) \/ Complete(observed)

\* C8 witness: a reader saw the complete record through the published name
C8_Witness ==
    /\ config = "bound"
    /\ Complete(observed)
    /\ observed = cfg.firebase

\* C9: with the credential record absent, no FirebaseClient() call returns a
\* client, none gets past the presence check, and no object is ever marked
\* initialized or connected.
C9_AbsentCredentialsFail ==
    (config = "bound" /\ Absent(cfg.firebase)) =>
        /\ \A t \in Threads : /\ tresult[t].status # "returned"
                              /\ tpc[t] \in {"idle", "L22", "L23", "L24", "L27", "L34"}
        /\ \A i \in DOMAIN objs : ~objs[i].has_initialized /\ ~objs[i].has_firestore
        /\ initRuns = 0
        /\ \A id \in DOMAIN store : store[id] = "absent"

\* C9 witness: a thread whose earlier attempt raised is initializing again, after
\* another thread's attempt raised too
C9_Witness ==
    /\ config = "bound"
    /\ Absent(cfg.firebase)
    /\ \E t \in Threads, u \in Threads :
          /\ t # u
          /\ tresult[t].status = "raised" /\ tpc[t] = "L34"
          /\ tresult[u].status = "raised" /\ tpc[u] = "idle"

\* C10: at most one FirebaseClient object is ever created, every call that
\* returns yields the same object, and _initialize succeeds at most once.
C10_Singleton ==
    /\ Len(objs) <= 1
    /\ initRuns <= 1
    /\ \A t \in Threads, u \in Threads :
          (tresult[t].status = "returned" /\ tresult[u].status = "returned")
              => tresult[t].client = tresult[u].client

====
